---- MODULE Spec2Model ----
(***************************************************************************)
(* A model of the CodeCrafters-git repository: the library functions       *)
(* create_dir, init_git_repo and init_git_repo_at (src/src/lib.rs) and the *)
(* command-line dispatch in main (src/src/main.rs), run against a small    *)
(* filesystem.  Paths are sequences of components below a temporary root.  *)
(***************************************************************************)
EXTENDS Integers, Sequences, FiniteSets, TLC

VARIABLES fs, last, okInits, st, log, calls

vars == <<fs, last, okInits, st, log, calls>>

\* ------------------------------------------------------------------ bounds

\* Number of concurrently running callers of init_git_repo_at.
NumProcs == 2
\* Number of init_git_repo_at calls the concurrent callers start in all.
MaxCalls == 3
\* Longest argument vector handed to main, the program name included.
MaxArgs == 4

\* -------------------------------------------------------------- filesystem

\* The temporary directory every test starts from (TempDir::new()).
Tmp == <<>>

\* The directories the tests initialise: the temporary directory itself
\* (the parent in test_nested_git_repos) and two subdirectories of it.
WorkDirs == {Tmp, <<"repo1">>, <<"repo2">>}

DirEntry == [kind |-> "dir", data |-> ""]

FileEntry(data) == [kind |-> "file", data |-> data]

\* Path::join for a relative component.
Join(base, name) == Append(base, name)

Parent(p) == SubSeq(p, 1, Len(p) - 1)

\* The text of a path, as format!("{}", path) prints it.
RECURSIVE PathStr(_)
PathStr(p) ==
    IF p = <<>> THEN "/tmp"
    ELSE PathStr(Parent(p)) \o "/" \o p[Len(p)]

\* Path::exists.
Exists(f, p) == p \in DOMAIN f

IsDir(f, p) == Exists(f, p) /\ f[p].kind = "dir"

\* p is q or lies below q.
Under(p, q) == Len(p) >= Len(q) /\ SubSeq(p, 1, Len(q)) = q

\* Faults the environment may inject into one filesystem step: none, a
\* refusal that changes nothing (permissions), or, for a write, a failure
\* after the file was created and truncated.
Faults == {"none", "deny", "partial"}

EEXIST == "File exists (os error 17)"
ENOENT == "No such file or directory (os error 2)"
ENOTDIR == "Not a directory (os error 20)"
EISDIR == "Is a directory (os error 21)"
EACCES == "Permission denied (os error 13)"
ENOSPC == "No space left on device (os error 28)"

Put(f, p, e) == [q \in DOMAIN f \cup {p} |-> IF q = p THEN e ELSE f[q]]

\* A mutant of std::fs::create_dir: create_dir_all, which also creates the
\* missing parents and succeeds on an existing directory.
RECURSIVE FsCreateDirAll(_, _, _)
FsCreateDirAll(f, p, fault) ==
    IF fault # "none" THEN [fs |-> f, err |-> EACCES]
    ELSE IF IsDir(f, p) THEN [fs |-> f, err |-> ""]
    ELSE IF Exists(f, p) THEN [fs |-> f, err |-> EEXIST]
    ELSE LET up == FsCreateDirAll(f, Parent(p), fault)
         IN  IF up.err # "" THEN up
             ELSE [fs |-> Put(up.fs, p, DirEntry), err |-> ""]

\* A mutant of std::fs::create_dir: an existing directory counts as made.
FsCreateDirLenient(f, p, fault) ==
    IF IsDir(f, p) THEN [fs |-> f, err |-> ""]
    ELSE IF Exists(f, p) THEN [fs |-> f, err |-> EEXIST]
    ELSE IF ~Exists(f, Parent(p)) THEN [fs |-> f, err |-> ENOENT]
    ELSE IF ~IsDir(f, Parent(p)) THEN [fs |-> f, err |-> ENOTDIR]
    ELSE IF fault # "none" THEN [fs |-> f, err |-> EACCES]
    ELSE [fs |-> Put(f, p, DirEntry), err |-> ""]

\* std::fs::create_dir: one mkdir; err is "" on success.
FsCreateDir(f, p, fault) ==
    IF Exists(f, p) THEN [fs |-> f, err |-> EEXIST]
    ELSE IF ~Exists(f, Parent(p)) THEN [fs |-> f, err |-> ENOENT]
    ELSE IF ~IsDir(f, Parent(p)) THEN [fs |-> f, err |-> ENOTDIR]
    ELSE IF fault # "none" THEN [fs |-> f, err |-> EACCES]
    ELSE [fs |-> Put(f, p, DirEntry), err |-> ""]

\* std::fs::write: create or truncate the file, then write all of data.
FsWrite(f, p, data, fault) ==
    IF IsDir(f, p) THEN [fs |-> f, err |-> EISDIR]
    ELSE IF ~Exists(f, Parent(p)) THEN [fs |-> f, err |-> ENOENT]
    ELSE IF ~IsDir(f, Parent(p)) THEN [fs |-> f, err |-> ENOTDIR]
    ELSE IF fault = "deny" THEN [fs |-> f, err |-> EACCES]
    ELSE IF fault = "partial" THEN [fs |-> Put(f, p, FileEntry("")), err |-> ENOSPC]
    ELSE [fs |-> Put(f, p, FileEntry(data)), err |-> ""]

\* ----------------------------------------------------------------- results

Ok == [ok |-> TRUE, err |-> ""]

Err(msg) == [ok |-> FALSE, err |-> msg]

StartsWith(s, pre) == Len(s) >= Len(pre) /\ SubSeq(s, 1, Len(pre)) = pre

AlreadyExistsMsg == "Error: .git directory already exists"

\* A mutant of the HEAD line: another default branch.
HeadContentMain == "ref: refs/heads/main\n"

\* The text written to `.git/HEAD`.
HeadContent == "ref: refs/heads/master\n"

InitializedMsg == "Initialized git repository"

\* ------------------------------------------------------------- lib.rs

\* create_dir(path): fs::create_dir with the error mapped to a message.
create_dir(f, path, fault) ==
    LET r == FsCreateDir(f, path, fault)
    IN  [fs |-> r.fs,
         res |-> IF r.err = "" THEN Ok
                 ELSE Err("Error creating " \o PathStr(path) \o " directory: " \o r.err)]

\* The faults of one call: at most one step is refused, since the first
\* failing step ends the call.
NoFault == [at |-> "never", fault |-> "none"]

FaultPlans ==
    {NoFault}
    \cup {[at |-> s, fault |-> "deny"] : s \in {"mkgit", "mkobjects", "mkrefs", "writehead"}}
    \cup {[at |-> "writehead", fault |-> "partial"]}

FaultAt(plan, at) == IF plan.at = at THEN plan.fault ELSE "none"

\* The faults that can strike the step at a position of init_git_repo_at.
StepFaults(at) ==
    IF at \in {"mkgit", "mkobjects", "mkrefs"} THEN {"none", "deny"}
    ELSE IF at = "writehead" THEN {"none", "deny", "partial"}
    ELSE {"none"}

\* A call of init_git_repo_at(path) about to run its first statement.
Start(path) ==
    [pc |-> "check", path |-> path, res |-> Ok, out |-> <<>>, exited |-> FALSE]

Finish(s, res) == [s EXCEPT !.pc = "done", !.res = res]

\* let git_path = base_path.join(".git").
GitPath(path) == Join(path, ".git")

\* A mutant of the existence check: look for `.git` in the directory and in
\* every directory above it, as repository discovery does.
GitExistsUpward(f, path) ==
    \E n \in 0 .. Len(path) : Exists(f, GitPath(SubSeq(path, 1, n)))

\* A mutant of the existence check: take the repository to exist only once
\* its HEAD does.
GitExistsByHead(f, path) == Exists(f, Join(GitPath(path), "HEAD"))

\* git_path.exists().
GitExists(f, path) == Exists(f, GitPath(path))

\* A mutant of the statement order: HEAD is written right after `.git` is
\* created, before objects and refs.
NextPcHeadFirst(at) ==
    CASE at = "check" -> "mkgit"
      [] at = "mkgit" -> "writehead"
      [] at = "writehead" -> "mkobjects"
      [] at = "mkobjects" -> "mkrefs"
      [] at = "mkrefs" -> "print"
      [] OTHER -> "done"

\* The statement that follows a statement that did not return.
NextPc(at) ==
    CASE at = "check" -> "mkgit"
      [] at = "mkgit" -> "mkobjects"
      [] at = "mkobjects" -> "mkrefs"
      [] at = "mkrefs" -> "writehead"
      [] at = "writehead" -> "print"
      [] OTHER -> "done"

\* A mutant of the error return: remove what the call built before it
\* returns the error.
FailCleanup(r, s, msg) ==
    [fs |-> [q \in {x \in DOMAIN r.fs : ~Under(x, GitPath(s.path))} |-> r.fs[q]],
     s |-> Finish(s, Err(msg \o r.err))]

\* .map_err(|e| format!("...: {}", e))? on a failed step: the call returns
\* the message, the filesystem staying as the failed step left it.
Fail(r, s, msg) == [fs |-> r.fs, s |-> Finish(s, Err(msg \o r.err))]

\* One statement of init_git_repo_at, at position s.pc, on filesystem f.
InitStep(f, s, fault) ==
    LET git_path == GitPath(s.path)
        goOn(g) == [fs |-> g, s |-> [s EXCEPT !.pc = NextPc(s.pc)]]
    IN  CASE s.pc = "check" ->
               IF GitExists(f, s.path)
               THEN [fs |-> f, s |-> Finish(s, Err(AlreadyExistsMsg))]
               ELSE goOn(f)
          [] s.pc = "mkgit" ->
               LET r == FsCreateDir(f, git_path, fault)
               IN  IF r.err # "" THEN Fail(r, s, "Error creating .git directory: ")
                   ELSE goOn(r.fs)
          [] s.pc = "mkobjects" ->
               LET r == FsCreateDir(f, Join(git_path, "objects"), fault)
               IN  IF r.err # "" THEN Fail(r, s, "Error creating .git/objects directory: ")
                   ELSE goOn(r.fs)
          [] s.pc = "mkrefs" ->
               LET r == FsCreateDir(f, Join(git_path, "refs"), fault)
               IN  IF r.err # "" THEN Fail(r, s, "Error creating .git/refs directory: ")
                   ELSE goOn(r.fs)
          [] s.pc = "writehead" ->
               LET r == FsWrite(f, Join(git_path, "HEAD"), HeadContent, fault)
               IN  IF r.err # "" THEN Fail(r, s, "Error writing .git/HEAD file: ")
                   ELSE goOn(r.fs)
          [] s.pc = "print" ->
               [fs |-> f, s |-> Finish([s EXCEPT !.out = <<InitializedMsg>>], Ok)]
          [] OTHER -> [fs |-> f, s |-> s]

RECURSIVE RunInit(_, _, _)
RunInit(f, s, plan) ==
    IF s.pc = "done" THEN [fs |-> f, s |-> s]
    ELSE LET n == InitStep(f, s, FaultAt(plan, s.pc))
         IN  RunInit(n.fs, n.s, plan)

\* init_git_repo_at(path), run from its first statement to its return.
init_git_repo_at(f, path, plan) ==
    LET r == RunInit(f, Start(path), plan)
    IN  [fs |-> r.fs, res |-> r.s.res, out |-> r.s.out, exited |-> r.s.exited]

\* init_git_repo(): init_git_repo_at("."), "." being the working directory.
init_git_repo(f, cwd, plan) == init_git_repo_at(f, cwd, plan)

\* ------------------------------------------------------------- main.rs

ProgName == "git"

Commands == {"init", "cat-file", "add", "commit", "status"}

\* The words tried as the command, and the words tried as its operands.
CommandWords == Commands \cup {"bogus"}

Operands == {"x", "y"}

\* args[i] of main, counted from 0 as the code counts.
Arg(args, i) == args[i + 1]

Exit(f, out, errs, code) == [fs |-> f, stdout |-> out, stderr |-> errs, exit |-> code]

cat_file_cmd(f, args) ==
    IF Len(args) < 3
    THEN Exit(f, <<>>,
              <<"Error: No object hash provided. Usage: " \o Arg(args, 0)
                    \o " cat-file <object_hash>">>, 1)
    ELSE Exit(f, <<"Object hash: " \o Arg(args, 2)>>, <<>>, 0)

add_cmd(f, args) ==
    IF Len(args) < 3
    THEN Exit(f, <<>>,
              <<"Error: No file provided. Usage: " \o Arg(args, 0) \o " add <file>">>, 1)
    ELSE Exit(f, <<"Added file: " \o Arg(args, 2)>>, <<>>, 0)

\* A mutant of the init arm: the error is printed but the process goes on
\* and ends with status 0.
init_cmd_swallow(f, cwd, plan) ==
    LET r == init_git_repo(f, cwd, plan)
    IN  IF ~r.res.ok
        THEN Exit(r.fs, r.out, <<r.res.err>>, 0)
        ELSE Exit(r.fs, r.out, <<>>, 0)

\* The "init" arm of main.
init_cmd(f, cwd, plan) ==
    LET r == init_git_repo(f, cwd, plan)
    IN  IF ~r.res.ok
        THEN Exit(r.fs, r.out, <<r.res.err>>, 1)
        ELSE Exit(r.fs, r.out, <<>>, 0)

\* A mutant of the commit arm: a commit without a message is refused.
commit_cmd_strict(f, args) ==
    IF Len(args) > 2
    THEN Exit(f, <<"Commit message: " \o Arg(args, 2)>>, <<>>, 0)
    ELSE Exit(f, <<>>, <<"Error: No commit message provided">>, 1)

\* The "commit" arm of main.
commit_cmd(f, args) ==
    Exit(f, <<"Commit message: "
                \o (IF Len(args) > 2 THEN Arg(args, 2) ELSE "Unnamed commit")>>,
         <<>>, 0)

\* A mutant of the status arm: it looks for the repository first.
status_cmd_checked(f, cwd) ==
    IF GitExists(f, cwd)
    THEN Exit(f, <<"Repository status: Clean">>, <<>>, 0)
    ELSE Exit(f, <<>>, <<"Error: not a git repository">>, 1)

\* The "status" arm of main.
status_cmd(f, cwd) == Exit(f, <<"Repository status: Clean">>, <<>>, 0)

\* main, run in working directory cwd with argument vector args.
main(f, cwd, args, plan) ==
    IF Len(args) < 2
    THEN Exit(f, <<>>,
              <<"Error: No command provided. Usage: " \o Arg(args, 0) \o " <command>">>, 1)
    ELSE LET command == Arg(args, 1)
         IN  CASE command = "init" -> init_cmd(f, cwd, plan)
               [] command = "cat-file" -> cat_file_cmd(f, args)
               [] command = "add" -> add_cmd(f, args)
               [] command = "commit" -> commit_cmd(f, args)
               [] command = "status" -> status_cmd(f, cwd)
               [] OTHER -> Exit(f, <<>>, <<"Error: Unknown command: " \o command>>, 1)

\* ------------------------------------------------- sequential use

Procs == 1 .. NumProcs

\* A caller that is not inside init_git_repo_at.
Idle ==
    [call |-> [pc |-> "idle", path |-> Tmp, res |-> Ok, out |-> <<>>, exited |-> FALSE],
     faulted |-> FALSE, wrote |-> {}]

\* The argument vectors of length n: the program name, a command word,
\* then operands.
RECURSIVE ArgsOfLen(_)
ArgsOfLen(n) ==
    IF n = 1 THEN {<<ProgName>>}
    ELSE IF n = 2 THEN {<<ProgName, c>> : c \in CommandWords}
    ELSE {Append(a, w) : a \in ArgsOfLen(n - 1), w \in Operands}

ArgVectors == UNION {ArgsOfLen(n) : n \in 1 .. MaxArgs}

\* The paths create_dir is called with: the working directories, a `.git`
\* made by hand (test_cli_init_fails_when_exists), a path whose parent is
\* missing and a path whose parent is a file.
CreateDirPaths ==
    WorkDirs \cup {Join(d, ".git") : d \in WorkDirs}
    \cup {<<"missing", "sub">>, <<"repo1", ".git", "HEAD", "sub">>}

NoCall ==
    [op |-> "none", path |-> Tmp, args |-> <<>>, plan |-> NoFault, pre |-> fs,
     res |-> Ok, stdout |-> <<>>, stderr |-> <<>>, exited |-> FALSE, exit |-> 0,
     okBefore |-> 0]

Bump(n) == IF n < 2 THEN n + 1 ELSE n

Init ==
    /\ fs = (Tmp :> DirEntry)
    /\ last = [NoCall EXCEPT !.pre = (Tmp :> DirEntry)]
    /\ okInits = [d \in WorkDirs |-> 0]
    /\ st = [p \in Procs |-> Idle]
    /\ log = {}
    /\ calls = 0

\* A test or library user calls init_git_repo_at(path).
LibInitAt(path, plan) ==
    LET r == init_git_repo_at(fs, path, plan)
    IN  /\ fs' = r.fs
        /\ last' = [op |-> "init_git_repo_at", path |-> path, args |-> <<>>, plan |-> plan,
                    pre |-> fs, res |-> r.res, stdout |-> r.out, stderr |-> <<>>,
                    exited |-> r.exited, exit |-> 0, okBefore |-> okInits[path]]
        /\ okInits' = IF r.res.ok THEN [okInits EXCEPT ![path] = Bump(@)] ELSE okInits
        /\ UNCHANGED <<st, log, calls>>

\* A library user calls init_git_repo() in working directory cwd.
LibInit(cwd, plan) ==
    /\ IsDir(fs, cwd)
    /\ LET r == init_git_repo(fs, cwd, plan)
       IN  /\ fs' = r.fs
           /\ last' = [op |-> "init_git_repo", path |-> cwd, args |-> <<>>, plan |-> plan,
                       pre |-> fs, res |-> r.res, stdout |-> r.out, stderr |-> <<>>,
                       exited |-> r.exited, exit |-> 0, okBefore |-> okInits[cwd]]
           /\ okInits' = IF r.res.ok THEN [okInits EXCEPT ![cwd] = Bump(@)] ELSE okInits
    /\ UNCHANGED <<st, log, calls>>

\* A test or library user calls create_dir(path).
LibCreateDir(path, fault) ==
    LET r == create_dir(fs, path, fault)
    IN  /\ fs' = r.fs
        /\ last' = [op |-> "create_dir", path |-> path, args |-> <<>>,
                    plan |-> [at |-> "create_dir", fault |-> fault],
                    pre |-> fs, res |-> r.res, stdout |-> <<>>, stderr |-> <<>>,
                    exited |-> FALSE, exit |-> 0, okBefore |-> 0]
        /\ UNCHANGED <<okInits, st, log, calls>>

\* The program is run in working directory cwd with argument vector args.
CliRun(cwd, args, plan) ==
    /\ IsDir(fs, cwd)
    /\ LET r == main(fs, cwd, args, plan)
           ok == Len(args) >= 2 /\ Arg(args, 1) = "init" /\ r.exit = 0
       IN  /\ fs' = r.fs
           /\ last' = [op |-> "main", path |-> cwd, args |-> args, plan |-> plan,
                       pre |-> fs, res |-> Ok, stdout |-> r.stdout, stderr |-> r.stderr,
                       exited |-> TRUE, exit |-> r.exit, okBefore |-> okInits[cwd]]
           /\ okInits' = IF ok THEN [okInits EXCEPT ![cwd] = Bump(@)] ELSE okInits
    /\ UNCHANGED <<st, log, calls>>

Next ==
    \/ \E path \in WorkDirs, plan \in FaultPlans : LibInitAt(path, plan)
    \/ \E cwd \in WorkDirs, plan \in FaultPlans : LibInit(cwd, plan)
    \/ \E path \in CreateDirPaths, fault \in {"none", "deny"} : LibCreateDir(path, fault)
    \/ \E cwd \in WorkDirs, plan \in FaultPlans : CliRun(cwd, <<ProgName, "init">>, plan)

Spec == Init /\ [][Next]_vars

\* ------------------------------------------------- command-line use

\* The working directory of the program in the command-line tests.
Cwd == Tmp

WorkFile == Join(Cwd, "file1.txt")

\* The directory a command-line test starts in: the temporary directory,
\* with or without a file in it and with or without a `.git` made by hand.
CliFixtures ==
    {[p \in {Tmp} \cup files \cup gits |->
         IF p \in files THEN FileEntry("This is test file 1\nLine 2\nLine 3\n") ELSE DirEntry] :
       files \in SUBSET {WorkFile}, gits \in SUBSET {Join(Cwd, ".git")}}

CliInit ==
    /\ fs \in CliFixtures
    /\ last = [NoCall EXCEPT !.pre = fs]
    /\ okInits = [d \in WorkDirs |-> 0]
    /\ st = [p \in Procs |-> Idle]
    /\ log = {}
    /\ calls = 0

CliNext ==
    \E args \in ArgVectors :
       \E plan \in (IF Len(args) >= 2 /\ Arg(args, 1) = "init" THEN FaultPlans ELSE {NoFault}) :
          CliRun(Cwd, args, plan)

CliSpec == CliInit /\ [][CliNext]_vars

\* ------------------------------------------------- concurrent use

\* The entries of g that f lacks or holds with another content.
Changed(f, g) == {q \in DOMAIN g : q \notin DOMAIN f \/ f[q] # g[q]}

ConcInit ==
    /\ fs = [d \in WorkDirs |-> DirEntry]
    /\ last = [NoCall EXCEPT !.pre = [d \in WorkDirs |-> DirEntry]]
    /\ okInits = [d \in WorkDirs |-> 0]
    /\ st = [p \in Procs |-> Idle]
    /\ log = {}
    /\ calls = 0

\* Caller p enters init_git_repo_at(path).
Call(p, path) ==
    /\ st[p].call.pc = "idle"
    /\ calls < MaxCalls
    /\ calls' = calls + 1
    /\ st' = [st EXCEPT ![p] = [call |-> Start(path), faulted |-> FALSE, wrote |-> {}]]
    /\ UNCHANGED <<fs, last, okInits, log>>

\* Caller p runs the next statement of its call; the environment may
\* refuse the filesystem step it makes.
Step(p, fault) ==
    /\ st[p].call.pc \notin {"idle", "done"}
    /\ fault \in StepFaults(st[p].call.pc)
    /\ LET n == InitStep(fs, st[p].call, fault)
       IN  /\ fs' = n.fs
           /\ st' = [st EXCEPT ![p].call = n.s,
                               ![p].faulted = @ \/ n # InitStep(fs, st[p].call, "none"),
                               ![p].wrote = @ \cup Changed(fs, n.fs)]
    /\ UNCHANGED <<last, okInits, log, calls>>

\* The call of caller p returns its result, which is logged as the next
\* result on its path.
Return(p) ==
    /\ st[p].call.pc = "done"
    /\ log' = log \cup {[id |-> Cardinality({e \in log : e.path = st[p].call.path}) + 1,
                         path |-> st[p].call.path, res |-> st[p].call.res,
                         out |-> st[p].call.out, exited |-> st[p].call.exited,
                         faulted |-> st[p].faulted, wrote |-> st[p].wrote]}
    /\ okInits' = IF st[p].call.res.ok
                  THEN [okInits EXCEPT ![st[p].call.path] = Bump(@)] ELSE okInits
    /\ st' = [st EXCEPT ![p] = Idle]
    /\ UNCHANGED <<fs, last, calls>>

ConcNext ==
    \/ \E p \in Procs, path \in WorkDirs : Call(p, path)
    \/ \E p \in Procs, fault \in Faults : Step(p, fault)
    \/ \E p \in Procs : Return(p)

ConcSpec == ConcInit /\ [][ConcNext]_vars

\* ------------------------------------------------- properties

LastIsInit == last.op \in {"init_git_repo_at", "init_git_repo"}

LastGit == Join(last.path, ".git")

\* The four entries init_git_repo_at makes below path.
Skeleton(path) ==
    {Join(path, ".git"), Join(Join(path, ".git"), "objects"),
     Join(Join(path, ".git"), "refs"), Join(Join(path, ".git"), "HEAD")}

\* f holds the complete skeleton below path, HEAD naming the master branch.
HasSkeleton(f, path) ==
    /\ Skeleton(path) \subseteq DOMAIN f
    /\ f[Join(path, ".git")] = [kind |-> "dir", data |-> ""]
    /\ f[Join(Join(path, ".git"), "objects")] = [kind |-> "dir", data |-> ""]
    /\ f[Join(Join(path, ".git"), "refs")] = [kind |-> "dir", data |-> ""]
    /\ f[Join(Join(path, ".git"), "HEAD")] =
          [kind |-> "file", data |-> "ref: refs/heads/master\n"]

\* g holds every entry of f, unchanged.
Keeps(f, g) == \A q \in DOMAIN f : q \in DOMAIN g /\ g[q] = f[q]

\* C1: init_git_repo_at(path), called on an existing directory without a
\* `.git` entry with no filesystem step refused, returns Ok and adds exactly
\* `.git`, `.git/objects`, `.git/refs` (directories) and `.git/HEAD` (a file
\* holding the line "ref: refs/heads/master\n"); every other entry is as it
\* was before the call.
C1_InitCreatesSkeleton ==
    (/\ LastIsInit
     /\ IsDir(last.pre, last.path)
     /\ ~Exists(last.pre, LastGit)
     /\ last.plan = NoFault)
    => /\ last.res = [ok |-> TRUE, err |-> ""]
       /\ DOMAIN fs = DOMAIN last.pre \cup Skeleton(last.path)
       /\ HasSkeleton(fs, last.path)
       /\ Keeps(last.pre, fs)

C1_Witness ==
    /\ last.op = "init_git_repo_at"
    /\ last.path = <<"repo1">>
    /\ IsDir(last.pre, last.path)
    /\ ~Exists(last.pre, LastGit)
    /\ last.plan = NoFault
    /\ last.res.ok
    /\ fs[Join(LastGit, "HEAD")].data = "ref: refs/heads/master\n"

\* C2: a call of init made while path/.git exists, whatever it holds,
\* returns Err("Error: .git directory already exists") and leaves the
\* filesystem as it was; so at most one call on a path returns Ok, and every
\* call after a successful one fails with that error.
C2_InitRefusesExistingGit ==
    /\ (LastIsInit /\ Exists(last.pre, LastGit))
          => /\ last.res = [ok |-> FALSE, err |-> "Error: .git directory already exists"]
             /\ fs = last.pre
    /\ (LastIsInit /\ last.okBefore >= 1)
          => last.res = [ok |-> FALSE, err |-> "Error: .git directory already exists"]
    /\ \A d \in WorkDirs : okInits[d] <= 1

C2_Witness ==
    /\ last.op = "init_git_repo_at"
    /\ Exists(last.pre, LastGit)
    /\ ~Exists(last.pre, Join(LastGit, "objects"))
    /\ last.plan = NoFault
    /\ last.res = [ok |-> FALSE, err |-> "Error: .git directory already exists"]
    /\ \E d \in WorkDirs : d # last.path /\ okInits[d] = 1

\* The messages a failed initialization returns.
InitErrors ==
    {"Error: .git directory already exists"}
    \cup {pre \o cause :
            pre \in {"Error creating .git directory: ",
                     "Error creating .git/objects directory: ",
                     "Error creating .git/refs directory: ",
                     "Error writing .git/HEAD file: "},
            cause \in {EEXIST, ENOENT, ENOTDIR, EISDIR, EACCES, ENOSPC}}

\* The step of the call at which a refusal makes it fail, by message.
ErrorOfStep(at) ==
    CASE at = "mkgit" -> "Error creating .git directory: "
      [] at = "mkobjects" -> "Error creating .git/objects directory: "
      [] at = "mkrefs" -> "Error creating .git/refs directory: "
      [] OTHER -> "Error writing .git/HEAD file: "

\* The call recorded in last met a failure: `.git` was there, the directory
\* was not, or a step was refused.
LastMustFail ==
    \/ Exists(last.pre, LastGit)
    \/ ~IsDir(last.pre, last.path)
    \/ last.plan # NoFault

\* C3: the library returns every failure of initialization as an Err value
\* and never ends the process: init_git_repo and init_git_repo_at return Err
\* for an existing `.git` and for a failure of each of the four filesystem
\* steps, and Ok only when nothing failed; the command-line init prints the
\* error on stderr and exits with status 1 on Err, and prints "Initialized
\* git repository" on stdout and exits with status 0 on Ok.
C3_FailuresAreReturned ==
    /\ LastIsInit =>
          /\ ~last.exited
          /\ last.res.ok <=> ~LastMustFail
          /\ ~last.res.ok => last.res.err \in InitErrors
          /\ Exists(last.pre, LastGit) => last.res.err = "Error: .git directory already exists"
          /\ (~Exists(last.pre, LastGit) /\ IsDir(last.pre, last.path) /\ last.plan # NoFault)
                => StartsWith(last.res.err, ErrorOfStep(last.plan.at))
          /\ last.res.ok => (last.stdout = <<"Initialized git repository">>
                             /\ HasSkeleton(fs, last.path))
    /\ (last.op = "main" /\ last.args = <<ProgName, "init">>) =>
          /\ last.exited
          /\ LastMustFail =>
                /\ last.exit = 1
                /\ Len(last.stderr) = 1
                /\ last.stderr[1] \in InitErrors
                /\ last.stdout = <<>>
          /\ ~LastMustFail =>
                /\ last.exit = 0
                /\ last.stdout = <<"Initialized git repository">>
                /\ last.stderr = <<>>
                /\ HasSkeleton(fs, last.path)

C3_Witness ==
    /\ last.op = "main"
    /\ last.args = <<ProgName, "init">>
    /\ last.plan.at = "mkrefs"
    /\ last.exit = 1
    /\ last.stderr = <<"Error creating .git/refs directory: Permission denied (os error 13)">>

\* f without the `.git` trees of the working directories other than path.
WithoutOtherRepos(f, path) ==
    [q \in {x \in DOMAIN f :
              ~\E d \in WorkDirs \ {path} : Under(x, Join(d, ".git"))} |-> f[q]]

\* C6: repositories at different paths are independent: init_git_repo_at(P)
\* touches only entries below P/.git, its result is the one it returns when
\* no other directory holds a `.git`, and the `.git` of a sibling, parent or
\* child directory stays as it was; so a child of an initialized parent can
\* be initialized, and two siblings can be initialized in either order.
C6_ReposAreIndependent ==
    LastIsInit =>
       /\ Keeps(last.pre, fs)
       /\ \A q \in DOMAIN fs \ DOMAIN last.pre : Under(q, LastGit)
       /\ last.res = init_git_repo_at(WithoutOtherRepos(last.pre, last.path),
                                      last.path, last.plan).res
       /\ (IsDir(last.pre, last.path) /\ ~Exists(last.pre, LastGit) /\ last.plan = NoFault)
             => last.res.ok

C6_Witness ==
    /\ last.op = "init_git_repo_at"
    /\ last.path = <<"repo1">>
    /\ HasSkeleton(last.pre, Tmp)
    /\ HasSkeleton(last.pre, <<"repo2">>)
    /\ last.res.ok
    /\ HasSkeleton(fs, <<"repo1">>)

\* C7: create_dir(path) makes exactly the directory path and returns Ok when
\* path does not exist, its parent is a directory and the step is not
\* refused; when path exists or its parent is missing it returns Err with a
\* message starting "Error creating <path> directory:" and changes nothing;
\* it never makes a missing parent and never replaces an entry, so it
\* succeeds only where path did not exist before.
C7_CreateDirMakesOneDirectory ==
    last.op = "create_dir" =>
       /\ (~Exists(last.pre, last.path) /\ IsDir(last.pre, Parent(last.path))
             /\ last.plan.fault = "none")
             => /\ last.res = [ok |-> TRUE, err |-> ""]
                /\ DOMAIN fs = DOMAIN last.pre \cup {last.path}
                /\ fs[last.path] = [kind |-> "dir", data |-> ""]
       /\ (Exists(last.pre, last.path) \/ ~Exists(last.pre, Parent(last.path)))
             => /\ ~last.res.ok
                /\ StartsWith(last.res.err,
                              "Error creating " \o PathStr(last.path) \o " directory:")
                /\ fs = last.pre
       /\ ~last.res.ok => fs = last.pre
       /\ last.res.ok => ~Exists(last.pre, last.path)
       /\ DOMAIN fs \ DOMAIN last.pre \subseteq {last.path}
       /\ Keeps(last.pre, fs)

C7_Witness ==
    /\ last.op = "create_dir"
    /\ last.path = <<"missing", "sub">>
    /\ last.plan.fault = "none"
    /\ last.res = [ok |-> FALSE,
                   err |-> "Error creating /tmp/missing/sub directory: No such file or directory (os error 2)"]
    /\ fs = last.pre
    /\ IsDir(fs, <<"repo1">>)

\* C8 as claimed: whenever init_git_repo_at returns Err, the filesystem is
\* as it was before the call.
C8_AllOrNothing == (LastIsInit /\ ~last.res.ok) => fs = last.pre

\* pre with the entries of ps added as directories.
WithDirs(pre, ps) == [q \in DOMAIN pre \cup ps |-> IF q \in ps THEN DirEntry ELSE pre[q]]

\* C8 as amended: a call that returns Err from the existence check or from
\* the creation of `.git` leaves the filesystem as it was; a call that fails
\* at a later step leaves behind what the earlier steps made (`.git`; then
\* `.git/objects`; then `.git/refs`; and an empty HEAD when the write failed
\* after creating the file), and a retry on the same path then fails with
\* "Error: .git directory already exists".
C8_NoRollback ==
    (LastIsInit /\ ~last.res.ok) =>
       LET git == LastGit
           objects == Join(LastGit, "objects")
           refs == Join(LastGit, "refs")
           head == Join(LastGit, "HEAD")
       IN  /\ (last.res.err = "Error: .git directory already exists"
                 \/ StartsWith(last.res.err, "Error creating .git directory: "))
                 => fs = last.pre
           /\ StartsWith(last.res.err, "Error creating .git/objects directory: ")
                 => fs = WithDirs(last.pre, {git})
           /\ StartsWith(last.res.err, "Error creating .git/refs directory: ")
                 => fs = WithDirs(last.pre, {git, objects})
           /\ StartsWith(last.res.err, "Error writing .git/HEAD file: ")
                 => \/ fs = WithDirs(last.pre, {git, objects, refs})
                    \/ /\ last.plan.fault = "partial"
                       /\ fs = Put(WithDirs(last.pre, {git, objects, refs}), head,
                                   [kind |-> "file", data |-> ""])
           /\ fs # last.pre =>
                 init_git_repo_at(fs, last.path, NoFault).res
                    = [ok |-> FALSE, err |-> "Error: .git directory already exists"]

C8_Witness ==
    /\ last.op = "init_git_repo_at"
    /\ last.res.err = "Error creating .git/refs directory: Permission denied (os error 13)"
    /\ ~Exists(last.pre, LastGit)
    /\ IsDir(fs, Join(LastGit, "objects"))
    /\ ~Exists(fs, Join(LastGit, "refs"))

LastIsMain == last.op = "main"

LastCommand == IF Len(last.args) >= 2 THEN last.args[2] ELSE ""

\* The run recorded in last failed with one message on stderr that starts
\* with text, and printed nothing on stdout.
FailedWith(text) ==
    /\ last.exit = 1
    /\ last.stdout = <<>>
    /\ Len(last.stderr) = 1
    /\ StartsWith(last.stderr[1], text)

\* The run recorded in last ended with status 0 and printed line on stdout.
Printed(line) == last.exit = 0 /\ last.stdout = <<line>> /\ last.stderr = <<>>

\* C4: main exits with status 1 and an error on stderr when no command is
\* given, when the command is unknown, when cat-file has no object hash and
\* when add has no file; every other run of cat-file, add, commit or status
\* exits with status 0, commit without a message printing "Unnamed commit";
\* the arguments after the first operand do not change the outcome.
C4_Dispatch ==
    LastIsMain =>
       /\ Len(last.args) < 2 => FailedWith("Error: No command provided")
       /\ (Len(last.args) >= 2
             /\ LastCommand \notin {"init", "cat-file", "add", "commit", "status"})
             => FailedWith("Error: Unknown command")
       /\ (LastCommand = "cat-file" /\ Len(last.args) < 3)
             => FailedWith("Error: No object hash provided")
       /\ (LastCommand = "add" /\ Len(last.args) < 3)
             => FailedWith("Error: No file provided")
       /\ (LastCommand = "cat-file" /\ Len(last.args) >= 3)
             => Printed("Object hash: " \o last.args[3])
       /\ (LastCommand = "add" /\ Len(last.args) >= 3)
             => Printed("Added file: " \o last.args[3])
       /\ (LastCommand = "commit" /\ Len(last.args) >= 3)
             => Printed("Commit message: " \o last.args[3])
       /\ (LastCommand = "commit" /\ Len(last.args) < 3)
             => Printed("Commit message: Unnamed commit")
       /\ LastCommand = "status" => Printed("Repository status: Clean")

C4_Witness ==
    /\ LastIsMain
    /\ last.args = <<ProgName, "commit", "x", "y">>
    /\ last.exit = 0
    /\ last.stdout = <<"Commit message: x">>

\* The filesystems a stub command is compared on: the test fixtures, and
\* the directory as the runs before left it.
OtherStates == CliFixtures \cup {last.pre}

\* C5: cat-file, add, commit and status are stubs: a run of any of them,
\* with whatever arguments, leaves the filesystem as it was, and what it
\* prints and returns is the same in every state of the repository (with or
\* without `.git`, with or without files in the working directory).
C5_StubsTouchNothing ==
    (LastIsMain /\ LastCommand \in {"cat-file", "add", "commit", "status"}) =>
       /\ fs = last.pre
       /\ \A g \in OtherStates :
             LET r == main(g, last.path, last.args, NoFault)
             IN  /\ r.stdout = last.stdout
                 /\ r.stderr = last.stderr
                 /\ r.exit = last.exit
                 /\ r.fs = g
       /\ LastCommand = "status" => last.stdout = <<"Repository status: Clean">>

C5_Witness ==
    /\ LastIsMain
    /\ LastCommand = "status"
    /\ ~Exists(last.pre, Join(last.path, ".git"))
    /\ Exists(last.pre, WorkFile)
    /\ last.stdout = <<"Repository status: Clean">>
    /\ fs = last.pre

\* ------------------------------------------------- properties of concurrent use

\* The callers inside a call on directory d.
Inside(d) == {p \in Procs : st[p].call.pc # "idle" /\ st[p].call.path = d}

\* The returned calls on directory d.
Returned(d) == {e \in log : e.path = d}

\* C9: with only init_git_repo_at calls on directories that start without
\* `.git`, any step of which may be refused and which may interleave: HEAD
\* exists only where objects and refs exist, objects and refs exist only
\* where `.git` exists, no caller has a directory or HEAD left to make once
\* HEAD exists (HEAD is written last), and a call returns Ok only where all
\* four entries exist.
C9_OrderOfEntries ==
    \A d \in WorkDirs :
       LET git == Join(d, ".git")
           objects == Join(git, "objects")
           refs == Join(git, "refs")
           head == Join(git, "HEAD")
       IN  /\ Exists(fs, head) => Exists(fs, objects) /\ Exists(fs, refs)
           /\ (Exists(fs, objects) \/ Exists(fs, refs)) => Exists(fs, git)
           /\ Exists(fs, refs) => Exists(fs, objects)
           /\ Exists(fs, head) =>
                 \A p \in Inside(d) : st[p].call.pc \notin {"mkobjects", "mkrefs", "writehead"}
           /\ \A p \in Inside(d) :
                 (st[p].call.pc = "done" /\ st[p].call.res.ok) => HasSkeleton(fs, d)
           /\ \A e \in Returned(d) : e.res.ok => HasSkeleton(fs, d)

C9_Witness ==
    \E p, q \in Procs :
       /\ p # q
       /\ st[p].call.path = <<"repo1">>
       /\ st[q].call.path = <<"repo1">>
       /\ st[p].call.pc = "done"
       /\ st[p].call.res.ok
       /\ st[q].call.pc = "mkgit"
       /\ HasSkeleton(fs, <<"repo1">>)

\* The messages of the call that loses the race.
LoserErrors ==
    {"Error: .git directory already exists",
     "Error creating .git directory: File exists (os error 17)"}

\* C10: when the calls of init_git_repo_at made on a directory that started
\* without `.git` have all returned, there were at least two of them and no
\* step was refused by the environment, then exactly one of them returned
\* Ok, every other one returned Err with "Error: .git directory already
\* exists" or "Error creating .git directory: File exists", the losing calls
\* changed nothing, and the directory holds the complete skeleton with HEAD
\* equal to "ref: refs/heads/master\n".
C10_OneWinner ==
    \A d \in WorkDirs :
       (/\ Inside(d) = {}
        /\ Cardinality(Returned(d)) >= 2
        /\ \A e \in Returned(d) : ~e.faulted)
       => /\ Cardinality({e \in Returned(d) : e.res.ok}) = 1
          /\ \A e \in Returned(d) :
                ~e.res.ok => (e.res.err \in LoserErrors /\ e.wrote = {})
          /\ \A e \in Returned(d) : e.res.ok => e.wrote = Skeleton(d)
          /\ HasSkeleton(fs, d)

C10_Witness ==
    \E e1, e2 \in Returned(<<"repo1">>) :
       /\ Inside(<<"repo1">>) = {}
       /\ Cardinality(Returned(<<"repo1">>)) = 2
       /\ e1.res.ok
       /\ ~e1.faulted
       /\ ~e2.faulted
       /\ e2.res.err = "Error creating .git directory: File exists (os error 17)"
       /\ e2.wrote = {}
       /\ HasSkeleton(fs, <<"repo1">>)

====
